---- MODULE Spec2Model ----
(***************************************************************************)
(* Exact inference over a pedigree: src/2. heredity/heredity.py.           *)
(*                                                                         *)
(* Python numbers (the int 0/1 the accumulators start from and the floats  *)
(* of PROBS) are modelled as exact rationals n/d whose numerator and       *)
(* denominator are arbitrary-precision naturals, so that every sum,        *)
(* product and quotient of the program is computed without rounding.       *)
(* A natural is a little-endian sequence of limbs in base Base without     *)
(* trailing zero limbs; zero is the empty sequence.                        *)
(***************************************************************************)
EXTENDS Integers, Sequences, FiniteSets

VARIABLES
    PROBS,          \* the module-global table of heredity.py:5-37
    rows,           \* the records csv.DictReader yields to load_data
    people,         \* the dict load_data returns (insertion-ordered)
    probabilities,  \* the accumulator of main
    pc,             \* position of main
    ti,             \* index of have_trait in powerset(names)
    oi,             \* index of one_gene in powerset(names)
    wi,             \* index of two_genes in powerset(names - one_gene)
    p,              \* the local p of main: the last value joint_probability returned
    calls,          \* every (one_gene, two_genes, have_trait) handed to update
    err,            \* the exception that ended the run, "None" if none
    ret,            \* arguments and result of a direct function call
    mass,           \* history: the sum of every p handed to update so far
    merged,         \* the accumulator the worker pool merges into
    pos             \* per worker, how many assignments of its share it has merged

vars == <<PROBS, rows, people, probabilities, pc, ti, oi, wi, p, calls, err, ret, mass, merged, pos>>

----------------------------------------------------------------------------
(* Bounds *)

MaxPeople == 3      \* largest population drawn
MaxMutation == 4    \* mutation rates 0/100 .. MaxMutation/100 drawn for direct calls
MaxBucket == 1      \* accumulator totals 0 .. MaxBucket drawn for direct calls of normalize
DirectKeys == {1, 2}  \* keys of the accumulators drawn for direct calls of normalize
MaxWorkers == 2     \* largest worker pool drawn

None == 0                       \* Python None for a mother/father reference
Dangling == MaxPeople + 1       \* a name that is no key of the CSV

----------------------------------------------------------------------------
(* Arbitrary-precision naturals *)

Base == 10 ^ 4

RECURSIVE BStrip(_)
BStrip(a) ==
    IF a = <<>> THEN <<>>
    ELSE IF a[Len(a)] = 0 THEN BStrip(SubSeq(a, 1, Len(a) - 1))
    ELSE a

RECURSIVE BFromNat(_)
BFromNat(n) == IF n = 0 THEN <<>> ELSE <<n % Base>> \o BFromNat(n \div Base)

RECURSIVE BAddC(_, _, _)
BAddC(a, b, c) ==
    IF a = <<>> /\ b = <<>> THEN (IF c = 0 THEN <<>> ELSE <<c>>)
    ELSE LET x == IF a = <<>> THEN 0 ELSE Head(a)
             y == IF b = <<>> THEN 0 ELSE Head(b)
             s == x + y + c
         IN  <<s % Base>> \o BAddC(IF a = <<>> THEN <<>> ELSE Tail(a),
                                   IF b = <<>> THEN <<>> ELSE Tail(b),
                                   s \div Base)

BAdd(a, b) == BAddC(a, b, 0)

\* a - b for a >= b
RECURSIVE BSubC(_, _, _)
BSubC(a, b, c) ==
    IF a = <<>> THEN <<>>
    ELSE LET y == IF b = <<>> THEN 0 ELSE Head(b)
             s == Head(a) - y - c
         IN  <<(s + Base) % Base>> \o BSubC(Tail(a),
                                            IF b = <<>> THEN <<>> ELSE Tail(b),
                                            IF s < 0 THEN 1 ELSE 0)

BSub(a, b) == BStrip(BSubC(a, b, 0))

\* a * k for one limb k
RECURSIVE BMulC(_, _, _)
BMulC(a, k, c) ==
    IF a = <<>> THEN (IF c = 0 THEN <<>> ELSE <<c>>)
    ELSE LET s == Head(a) * k + c
         IN  <<s % Base>> \o BMulC(Tail(a), k, s \div Base)

BMulSmall(a, k) == IF k = 0 THEN <<>> ELSE BMulC(a, k, 0)

RECURSIVE BMul(_, _)
BMul(a, b) ==
    IF a = <<>> \/ b = <<>> THEN <<>>
    ELSE LET rest == BMul(a, Tail(b))
         IN  BAdd(BMulSmall(a, Head(b)),
                  IF rest = <<>> THEN <<>> ELSE <<0>> \o rest)

RECURSIVE BLess(_, _)
BLess(a, b) ==
    IF Len(a) # Len(b) THEN Len(a) < Len(b)
    ELSE IF a = <<>> THEN FALSE
    ELSE IF a[Len(a)] # b[Len(b)] THEN a[Len(a)] < b[Len(b)]
    ELSE BLess(SubSeq(a, 1, Len(a) - 1), SubSeq(b, 1, Len(b) - 1))

----------------------------------------------------------------------------
(* Exact rationals standing for Python's numbers *)

Rat(n, d) == [n |-> BFromNat(n), d |-> BFromNat(d)]

Zero == Rat(0, 1)
One == Rat(1, 1)

RAdd(x, y) ==
    IF x.d = y.d THEN [n |-> BAdd(x.n, y.n), d |-> x.d]
    ELSE [n |-> BAdd(BMul(x.n, y.d), BMul(y.n, x.d)), d |-> BMul(x.d, y.d)]

\* x - y for x >= y
RSub(x, y) ==
    IF x.d = y.d THEN [n |-> BSub(x.n, y.n), d |-> x.d]
    ELSE [n |-> BSub(BMul(x.n, y.d), BMul(y.n, x.d)), d |-> BMul(x.d, y.d)]

RMul(x, y) == [n |-> BMul(x.n, y.n), d |-> BMul(x.d, y.d)]

\* 1 / x for x # 0
RInv(x) == [n |-> x.d, d |-> x.n]

RIsZero(x) == x.n = <<>>

REq(x, y) ==
    IF x.d = y.d THEN x.n = y.n
    ELSE BMul(x.n, y.d) = BMul(y.n, x.d)

RLeq(x, y) == ~ BLess(BMul(y.n, x.d), BMul(x.n, y.d))

----------------------------------------------------------------------------
(* The table PROBS *)

PROBS0 ==
    [gene |-> [g \in 0..2 |-> CASE g = 2 -> Rat(1, 100)
                                [] g = 1 -> Rat(3, 100)
                                [] g = 0 -> Rat(96, 100)],
     trait |-> [g \in 0..2 |->
                  [t \in BOOLEAN |->
                     CASE g = 2 -> (IF t THEN Rat(65, 100) ELSE Rat(35, 100))
                       [] g = 1 -> (IF t THEN Rat(56, 100) ELSE Rat(44, 100))
                       [] g = 0 -> (IF t THEN Rat(1, 100) ELSE Rat(99, 100))]],
     mutation |-> Rat(1, 100)]

----------------------------------------------------------------------------
(* load_data *)

\* row["mother"] or None: a blank field becomes None
OrNone(field) == IF field = None THEN None ELSE field

load_data(rs) ==
    [q \in 1..Len(rs) |->
        [name |-> rs[q].name,
         mother |-> OrNone(rs[q].mother),
         father |-> OrNone(rs[q].father),
         trait |-> IF rs[q].trait = "1" THEN "True"
                   ELSE IF rs[q].trait = "0" THEN "False" ELSE "None"]]

\* set(people): the keys of the dict
names == {people[q].name : q \in 1..Len(people)}

\* people[person]
Person(person) == people[CHOOSE q \in 1..Len(people) : people[q].name = person]

----------------------------------------------------------------------------
(* powerset *)

\* list(s): the elements of a set in iteration order
RECURSIVE list(_)
list(s) ==
    IF s = {} THEN <<>>
    ELSE LET x == CHOOSE y \in s : \A z \in s : y <= z
         IN  <<x>> \o list(s \ {x})

\* itertools.combinations(l, r), each tuple turned into a set
RECURSIVE combinations(_, _)
combinations(l, r) ==
    IF r = 0 THEN << {} >>
    ELSE IF Len(l) < r THEN <<>>
    ELSE LET withHead == combinations(Tail(l), r - 1)
         IN  [q \in 1..Len(withHead) |-> {Head(l)} \cup withHead[q]]
                \o combinations(Tail(l), r)

\* itertools.chain.from_iterable(combinations(l, r) for r in range(from, len(l) + 1))
RECURSIVE chain(_, _)
chain(l, r) ==
    IF r > Len(l) THEN <<>>
    ELSE combinations(l, r) \o chain(l, r + 1)

powerset(s) == chain(list(s), 0)

----------------------------------------------------------------------------
(* joint_probability and its helpers *)

\* slip: a person in neither set is counted as a carrier
get_number_of_genes_by_name_carrier(person, one_gene, two_genes) ==
    IF person \in two_genes THEN 2
    ELSE 1

get_number_of_genes_by_name(person, one_gene, two_genes) ==
    IF person \in two_genes THEN 2
    ELSE IF person \in one_gene THEN 1
    ELSE 0

\* slip: the mutation rate written into the cases as the literal 0.01
calculate_probability_of_passing_gene_to_child_literal(number_of_parent_genes) ==
    CASE number_of_parent_genes = 2 -> Rat(99, 100)
      [] number_of_parent_genes = 1 -> Rat(50, 100)
      [] number_of_parent_genes = 0 -> Rat(1, 100)

\* slip: the cases 2 and 0 exchanged
calculate_probability_of_passing_gene_to_child_swapped(number_of_parent_genes) ==
    CASE number_of_parent_genes = 2 -> PROBS.mutation
      [] number_of_parent_genes = 1 -> Rat(50, 100)
      [] number_of_parent_genes = 0 -> RSub(One, PROBS.mutation)

calculate_probability_of_passing_gene_to_child(number_of_parent_genes) ==
    CASE number_of_parent_genes = 2 -> RSub(One, PROBS.mutation)
      [] number_of_parent_genes = 1 -> Rat(50, 100)
      [] number_of_parent_genes = 0 -> PROBS.mutation

\* slip: case 1 counts only "from the mother and not from the father"
calculate_child_gene_probability_one_sided(mother_genes, father_genes, child_number_of_genes) ==
    LET probability_of_mothers_gene ==
            calculate_probability_of_passing_gene_to_child(mother_genes)
        probability_of_fathers_gene ==
            calculate_probability_of_passing_gene_to_child(father_genes)
    IN  CASE child_number_of_genes = 2 ->
               RMul(probability_of_mothers_gene, probability_of_fathers_gene)
          [] child_number_of_genes = 1 ->
               RMul(probability_of_mothers_gene,
                    RSub(One, probability_of_fathers_gene))
          [] child_number_of_genes = 0 ->
               RMul(RSub(One, probability_of_mothers_gene),
                    RSub(One, probability_of_fathers_gene))

calculate_child_gene_probability(mother_genes, father_genes, child_number_of_genes) ==
    LET probability_of_mothers_gene ==
            calculate_probability_of_passing_gene_to_child(mother_genes)
        probability_of_fathers_gene ==
            calculate_probability_of_passing_gene_to_child(father_genes)
    IN  CASE child_number_of_genes = 2 ->
               RMul(probability_of_mothers_gene, probability_of_fathers_gene)
          [] child_number_of_genes = 1 ->
               RAdd(RMul(probability_of_mothers_gene,
                         RSub(One, probability_of_fathers_gene)),
                    RMul(probability_of_fathers_gene,
                         RSub(One, probability_of_mothers_gene)))
          [] child_number_of_genes = 0 ->
               RMul(RSub(One, probability_of_mothers_gene),
                    RSub(One, probability_of_fathers_gene))

\* the loop body of joint_probability for one item of people
\* slip: the trait factor is left out of a person's probability
probability_for_person_gene_only(data, one_gene, two_genes, have_trait) ==
    LET number_of_genes == get_number_of_genes_by_name(data.name, one_gene, two_genes)
    IN  IF data.mother # None /\ data.father # None
        THEN calculate_child_gene_probability(
                 get_number_of_genes_by_name(data.mother, one_gene, two_genes),
                 get_number_of_genes_by_name(data.father, one_gene, two_genes),
                 number_of_genes)
        ELSE PROBS.gene[number_of_genes]

probability_for_person(data, one_gene, two_genes, have_trait) ==
    LET number_of_genes == get_number_of_genes_by_name(data.name, one_gene, two_genes)
        gene_probability ==
            IF data.mother # None /\ data.father # None
            THEN calculate_child_gene_probability(
                     get_number_of_genes_by_name(data.mother, one_gene, two_genes),
                     get_number_of_genes_by_name(data.father, one_gene, two_genes),
                     number_of_genes)
            ELSE PROBS.gene[number_of_genes]
        trait_probability == PROBS.trait[number_of_genes][data.name \in have_trait]
    IN  RMul(gene_probability, trait_probability)

\* result_probability after the items q..len(people), starting from acc
RECURSIVE joint_loop(_, _, _, _, _, _)
joint_loop(ppl, q, acc, one_gene, two_genes, have_trait) ==
    IF q > Len(ppl) THEN acc
    ELSE joint_loop(ppl, q + 1,
                    RMul(acc, probability_for_person(ppl[q], one_gene, two_genes, have_trait)),
                    one_gene, two_genes, have_trait)

joint_probability(ppl, one_gene, two_genes, have_trait) ==
    joint_loop(ppl, 1, One, one_gene, two_genes, have_trait)

----------------------------------------------------------------------------
(* update and normalize *)

\* the accumulator main builds before the loops
probabilities0(ppl) ==
    [person \in {ppl[q].name : q \in 1..Len(ppl)} |->
        [gene |-> [g \in 0..2 |-> Zero], trait |-> [t \in BOOLEAN |-> Zero]]]

\* slip: the trait bucket indexed by "person not in have_trait"
update_negated(probs, one_gene, two_genes, have_trait, prob) ==
    [person \in DOMAIN probs |->
        LET number_of_genes == get_number_of_genes_by_name(person, one_gene, two_genes)
        IN  [gene |-> [probs[person].gene EXCEPT
                          ![number_of_genes] = RAdd(@, prob)],
             trait |-> [probs[person].trait EXCEPT
                          ![person \notin have_trait] = RAdd(@, prob)]]]

\* slip: "=" written for "+=", so a bucket holds the last p instead of the sum
update_overwrite(probs, one_gene, two_genes, have_trait, prob) ==
    [person \in DOMAIN probs |->
        LET number_of_genes == get_number_of_genes_by_name(person, one_gene, two_genes)
        IN  [gene |-> [probs[person].gene EXCEPT ![number_of_genes] = prob],
             trait |-> [probs[person].trait EXCEPT ![person \in have_trait] = prob]]]

\* slip: the trait distribution is not updated
update_gene_only(probs, one_gene, two_genes, have_trait, prob) ==
    [person \in DOMAIN probs |->
        LET number_of_genes == get_number_of_genes_by_name(person, one_gene, two_genes)
        IN  [gene |-> [probs[person].gene EXCEPT
                          ![number_of_genes] = RAdd(@, prob)],
             trait |-> probs[person].trait]]

\* slip: the joint probability is added to the gene bucket of every count up to the person's
update_cumulative(probs, one_gene, two_genes, have_trait, prob) ==
    [person \in DOMAIN probs |->
        LET number_of_genes == get_number_of_genes_by_name(person, one_gene, two_genes)
        IN  [gene |-> [g \in 0..2 |-> IF g <= number_of_genes
                                      THEN RAdd(probs[person].gene[g], prob)
                                      ELSE probs[person].gene[g]],
             trait |-> [probs[person].trait EXCEPT
                          ![person \in have_trait] = RAdd(@, prob)]]]

update(probs, one_gene, two_genes, have_trait, prob) ==
    [person \in DOMAIN probs |->
        LET number_of_genes == get_number_of_genes_by_name(person, one_gene, two_genes)
        IN  [gene |-> [probs[person].gene EXCEPT
                          ![number_of_genes] = RAdd(@, prob)],
             trait |-> [probs[person].trait EXCEPT
                          ![person \in have_trait] = RAdd(@, prob)]]]

\* slip: the bucket of zero copies left out of the sum
gene_total_short(d) == RAdd(d.gene[2], d.gene[1])

\* the sum gene_alpha divides by
gene_total(d) == RAdd(RAdd(d.gene[2], d.gene[1]), d.gene[0])

\* the sum trait_alpha divides by
trait_total(d) == RAdd(d.trait[TRUE], d.trait[FALSE])

\* slip: a division that yields a value instead of raising
raises_ZeroDivisionError_never(total) == FALSE

\* 1 / total raises ZeroDivisionError exactly when total is zero
raises_ZeroDivisionError(total) == RIsZero(total)

\* slip: range(2) written for range(3), so the two-copy bucket is not rescaled
normalized_genes_short(d, gene_alpha) ==
    [g \in 0..2 |-> IF g \in 0..1 THEN RMul(d.gene[g], gene_alpha) ELSE d.gene[g]]

\* for i in range(3): probabilities[person]["gene"][i] *= gene_alpha
normalized_genes(d, gene_alpha) == [g \in 0..2 |-> RMul(d.gene[g], gene_alpha)]

\* normalize from the q-th key on; 1 / 0 raises ZeroDivisionError and leaves
\* what was already rescaled in place
RECURSIVE normalize_loop(_, _, _)
normalize_loop(probs, keys, q) ==
    IF q > Len(keys) THEN [probabilities |-> probs, err |-> "None"]
    ELSE
      LET person == keys[q] IN
      IF raises_ZeroDivisionError(gene_total(probs[person]))
      THEN [probabilities |-> probs, err |-> "ZeroDivisionError"]
      ELSE
        LET gene_alpha == RInv(gene_total(probs[person]))
            probs1 == [probs EXCEPT ![person].gene =
                          normalized_genes(probs[person], gene_alpha)]
        IN
        IF raises_ZeroDivisionError(trait_total(probs1[person]))
        THEN [probabilities |-> probs1, err |-> "ZeroDivisionError"]
        ELSE
          LET trait_alpha == RInv(trait_total(probs1[person]))
              probs2 == [probs1 EXCEPT ![person].trait =
                            [t \in BOOLEAN |-> RMul(probs1[person].trait[t], trait_alpha)]]
          IN  normalize_loop(probs2, keys, q + 1)

normalize(probs) == normalize_loop(probs, list(DOMAIN probs), 1)

----------------------------------------------------------------------------
(* Inputs *)

Traits == {"1", "0", ""}

\* mother and father both blank, or the names of the two rows before this one
WellFormedParents(q) ==
    {<<None, None>>} \cup (IF q >= 3 THEN {<<q - 2, q - 1>>} ELSE {})

\* exactly one of mother/father present, or a reference to no row
MalformedParents(q) ==
    LET refs == (1..(q - 1)) \cup {Dangling}
    IN  {<<m, None>> : m \in refs} \cup {<<None, f>> : f \in refs}
          \cup {<<Dangling, f>> : f \in refs} \cup {<<m, Dangling>> : m \in refs}

RowsFor(q, parents) ==
    {[name |-> q, mother |-> mf[1], father |-> mf[2], trait |-> t] :
        mf \in parents, t \in Traits}

\* CSV files of n rows whose parent references are all well formed
RECURSIVE WellFormedFiles(_)
WellFormedFiles(n) ==
    IF n = 0 THEN {<<>>}
    ELSE {Append(f, row) : f \in WellFormedFiles(n - 1),
                           row \in RowsFor(n, WellFormedParents(n))}

\* CSV files of n rows whose last row has malformed parent references
MalformedFiles(n) ==
    {Append(f, row) : f \in {g \in WellFormedFiles(n - 1) :
                                \A q \in 1..(n - 1) : g[q].mother = None /\ g[q].trait = ""},
                      row \in RowsFor(n, MalformedParents(n))}

----------------------------------------------------------------------------
(* main *)

InitMain(files) ==
    /\ PROBS = PROBS0
    /\ rows \in files
    /\ people = <<>>
    /\ probabilities = <<>>
    /\ pc = "load"
    /\ ti = 1
    /\ oi = 1
    /\ wi = 1
    /\ p = Zero
    /\ calls = <<>>
    /\ err = "None"
    /\ ret = [f |-> "None"]
    /\ mass = Zero
    /\ merged = <<>>
    /\ pos = <<>>

Init == InitMain(UNION {WellFormedFiles(n) : n \in 1..MaxPeople})

\* people = load_data(...); probabilities = {...}
Load ==
    /\ pc = "load"
    /\ people' = load_data(rows)
    /\ probabilities' = probabilities0(people')
    /\ pc' = "trait_loop"
    /\ ti' = 1
    /\ UNCHANGED <<PROBS, rows, oi, wi, p, calls, err, ret, mass, merged, pos>>

\* slip: "is not None" written as a truth test, so observed False is ignored
fails_evidence_truthy(have_trait) ==
    \E person \in names :
        /\ Person(person).trait = "True"
        /\ (Person(person).trait = "True") # (person \in have_trait)

fails_evidence(have_trait) ==
    \E person \in names :
        /\ Person(person).trait # "None"
        /\ (Person(person).trait = "True") # (person \in have_trait)

\* slip: "continue" re-examines the same have_trait instead of taking the next
TraitLoop_stuck ==
    /\ pc = "trait_loop"
    /\ IF ti > Len(powerset(names))
       THEN /\ pc' = "normalize"
            /\ UNCHANGED <<ti, oi, wi>>
       ELSE IF fails_evidence(powerset(names)[ti])
       THEN /\ ti' = ti
            /\ UNCHANGED <<pc, oi, wi>>
       ELSE /\ pc' = "gene_loop"
            /\ oi' = 1
            /\ wi' = 1
            /\ UNCHANGED ti
    /\ UNCHANGED <<PROBS, rows, people, probabilities, p, calls, err, ret, mass, merged, pos>>

\* for have_trait in powerset(names): ... if fails_evidence: continue
TraitLoop ==
    /\ pc = "trait_loop"
    /\ IF ti > Len(powerset(names))
       THEN /\ pc' = "normalize"
            /\ UNCHANGED <<ti, oi, wi>>
       ELSE IF fails_evidence(powerset(names)[ti])
       THEN /\ ti' = ti + 1
            /\ UNCHANGED <<pc, oi, wi>>
       ELSE /\ pc' = "gene_loop"
            /\ oi' = 1
            /\ wi' = 1
            /\ UNCHANGED ti
    /\ UNCHANGED <<PROBS, rows, people, probabilities, p, calls, err, ret, mass, merged, pos>>

\* slip: "- one_gene" forgotten
two_genes_choices_all(one_gene) == powerset(names)

\* the sets the inner loop iterates over for a given one_gene
two_genes_choices(one_gene) == powerset(names \ one_gene)

\* the loop headers: the step from one iteration of the innermost loop to the next
NextIteration ==
    /\ pc = "gene_loop"
    /\ \E one_gene \in {powerset(names)[oi]} :
          IF wi < Len(two_genes_choices(one_gene))
          THEN /\ wi' = wi + 1
               /\ UNCHANGED <<pc, ti, oi>>
          ELSE IF oi < Len(powerset(names))
          THEN /\ oi' = oi + 1
               /\ wi' = 1
               /\ UNCHANGED <<pc, ti>>
          ELSE /\ pc' = "trait_loop"
               /\ ti' = ti + 1
               /\ UNCHANGED <<oi, wi>>

\* one iteration of the innermost loop, and the step to the next iteration
GeneLoop ==
    /\ pc = "gene_loop"
    /\ LET have_trait == powerset(names)[ti]
           one_gene == powerset(names)[oi]
           two_genes == two_genes_choices(one_gene)[wi]
           result_probability == joint_probability(people, one_gene, two_genes, have_trait)
       IN  /\ p' = result_probability
           /\ probabilities' = update(probabilities, one_gene, two_genes, have_trait, p')
           /\ mass' = RAdd(mass, p')
           /\ calls' = Append(calls, [one_gene |-> one_gene, two_genes |-> two_genes,
                                      have_trait |-> have_trait])
    /\ NextIteration
    /\ UNCHANGED <<PROBS, rows, people, err, ret, merged, pos>>

\* normalize(probabilities); an uncaught exception ends main
Normalize ==
    /\ pc = "normalize"
    /\ LET r == normalize(probabilities)
       IN  /\ probabilities' = r.probabilities
           /\ err' = r.err
           /\ pc' = IF r.err = "None" THEN "done" ELSE "failed"
    /\ UNCHANGED <<PROBS, rows, people, ti, oi, wi, p, calls, ret, mass, merged, pos>>

Next == Load \/ TraitLoop \/ GeneLoop \/ Normalize

Spec == Init /\ [][Next]_vars

\* where main is: the statement it is at and the three loop indices
position == <<pc, ti, oi, wi>>

\* the call normalize(probabilities) comes back, with a value or an exception
NormalizeReturns ==
    /\ pc = "normalize"
    /\ pc' \in {"done", "failed"}
    /\ UNCHANGED <<ti, oi, wi>>

\* main is one sequential thread: whenever its next statement can run, it
\* runs. Exactly one of the four is possible at a time, so this is
\* WF_vars(Next), stated on each statement's move to the next position.
SpecFair ==
    /\ Spec
    /\ WF_vars(Load)
    /\ WF_vars(TraitLoop)
    /\ WF_position(NextIteration)
    /\ WF_position(NormalizeReturns)

----------------------------------------------------------------------------
(* main on a CSV file that breaks load_data's precondition *)

InitMalformed == InitMain(UNION {MalformedFiles(n) : n \in 1..MaxPeople})

SpecMalformed == InitMalformed /\ [][Next]_vars

----------------------------------------------------------------------------
(* calculate_child_gene_probability called directly, for any mutation rate *)

InitChild ==
    /\ \E m \in 0..MaxMutation : PROBS = [PROBS0 EXCEPT !.mutation = Rat(m, 100)]
    /\ rows = <<>>
    /\ people = <<>>
    /\ probabilities = <<>>
    /\ pc = "call"
    /\ ti = 1
    /\ oi = 1
    /\ wi = 1
    /\ p = Zero
    /\ calls = <<>>
    /\ err = "None"
    /\ ret = [f |-> "None"]
    /\ mass = Zero
    /\ merged = <<>>
    /\ pos = <<>>

CallChild ==
    /\ pc = "call"
    /\ \E mother_genes \in 0..2, father_genes \in 0..2, child_number_of_genes \in 0..2 :
          ret' = [f |-> "calculate_child_gene_probability",
                  mother_genes |-> mother_genes,
                  father_genes |-> father_genes,
                  child_number_of_genes |-> child_number_of_genes,
                  gene_probability |->
                      calculate_child_gene_probability(mother_genes, father_genes,
                                                       child_number_of_genes)]
    /\ pc' = "returned"
    /\ UNCHANGED <<PROBS, rows, people, probabilities, ti, oi, wi, p, calls, err, mass, merged, pos>>

SpecChild == InitChild /\ [][CallChild]_vars

----------------------------------------------------------------------------
(* normalize called directly on any accumulator *)

Buckets == {Rat(v, 1) : v \in 0..MaxBucket}

Accumulators ==
    [DirectKeys -> [gene : [0..2 -> Buckets], trait : [BOOLEAN -> Buckets]]]

InitNormalize ==
    /\ PROBS = PROBS0
    /\ rows = <<>>
    /\ people = <<>>
    /\ probabilities \in Accumulators
    /\ pc = "normalize"
    /\ ti = 1
    /\ oi = 1
    /\ wi = 1
    /\ p = Zero
    /\ calls = <<>>
    /\ err = "None"
    /\ ret = [f |-> "None"]
    /\ mass = Zero
    /\ merged = <<>>
    /\ pos = <<>>

SpecNormalize == InitNormalize /\ [][Normalize]_vars

----------------------------------------------------------------------------
(* The loop body of main run again by a pool of workers *)

\* files small enough to run under every interleaving: up to two persons with
\* any evidence, and three persons whose traits are all observed
PoolFiles ==
    WellFormedFiles(1) \cup WellFormedFiles(2)
        \cup {f \in WellFormedFiles(3) : \A q \in 1..3 : f[q].trait # ""}

InitWorkers == InitMain(PoolFiles)

\* after the loops of main: the assignments main evaluated, in main's order,
\* are handed to a pool of 1..MaxWorkers workers with an accumulator of its own
StartPool ==
    /\ pc = "normalize"
    /\ merged' = probabilities0(people)
    /\ \E n \in 1..MaxWorkers : pos' = [w \in 1..n |-> 0]
    /\ pc' = "merge"
    /\ UNCHANGED <<PROBS, rows, people, probabilities, ti, oi, wi, p, calls, err, ret, mass>>

\* worker w takes every Len(pos)-th assignment, starting with the w-th
share(w, done) == done * Len(pos) + w

\* worker w runs the loop body on its next assignment and merges the result
\* into the pool's accumulator in one step
Merge(w) ==
    /\ pc = "merge"
    /\ LET q == share(w, pos[w])
           result_probability ==
               joint_probability(people, calls[q].one_gene, calls[q].two_genes,
                                 calls[q].have_trait)
       IN  /\ q <= Len(calls)
           /\ p' = result_probability
           /\ merged' = update(merged, calls[q].one_gene, calls[q].two_genes,
                               calls[q].have_trait, p')
    /\ pos' = [pos EXCEPT ![w] = @ + 1]
    /\ UNCHANGED <<PROBS, rows, people, probabilities, pc, ti, oi, wi, calls, err, ret, mass>>

\* every worker has exhausted its share
Join ==
    /\ pc = "merge"
    /\ \A w \in DOMAIN pos : share(w, pos[w]) > Len(calls)
    /\ pc' = "joined"
    /\ UNCHANGED <<PROBS, rows, people, probabilities, ti, oi, wi, p, calls, err, ret,
                   mass, merged, pos>>

NextWorkers ==
    Load \/ TraitLoop \/ GeneLoop \/ StartPool \/ (\E w \in DOMAIN pos : Merge(w)) \/ Join

SpecWorkers == InitWorkers /\ [][NextWorkers]_vars

----------------------------------------------------------------------------
(* Properties *)

\* the evidence of the CSV file, read off the rows themselves
ObservedTrue == {q \in 1..Len(rows) : rows[q].trait = "1"}
ObservedFalse == {q \in 1..Len(rows) : rows[q].trait = "0"}
Unobserved == {q \in 1..Len(rows) : rows[q].trait = ""}
Everyone == 1..Len(rows)

ConsistentWithEvidence(have_trait) ==
    /\ ObservedTrue \subseteq have_trait
    /\ have_trait \cap ObservedFalse = {}

LastCall == calls[Len(calls)]

\* C1: when main completes, every person's normalized gene-count distribution
\* over {0,1,2} sums to 1 and every person's trait distribution sums to 1.
C1_DistributionsSumToOne ==
    pc = "done" =>
        \A person \in DOMAIN probabilities :
            /\ REq(RAdd(probabilities[person].gene[0],
                        RAdd(probabilities[person].gene[1],
                             probabilities[person].gene[2])), One)
            /\ REq(RAdd(probabilities[person].trait[FALSE],
                        probabilities[person].trait[TRUE]), One)

C1_Witness ==
    /\ pc = "done"
    /\ Len(rows) = 3
    /\ rows[3].mother # None
    /\ ObservedTrue # {}
    /\ ObservedFalse # {}

\* the assignments the enumeration has to cover: every evidence-consistent
\* trait subset with every split of the population into two-copy, one-copy
\* and (the rest) zero-copy persons
AssignmentSpace ==
    {<<one, two, ht>> \in (SUBSET Everyone) \X (SUBSET Everyone) \X (SUBSET Everyone) :
        one \cap two = {} /\ ConsistentWithEvidence(ht)}

Evaluated == {<<calls[q].one_gene, calls[q].two_genes, calls[q].have_trait>> :
                 q \in 1..Len(calls)}

\* C2: every call has disjoint one-copy and two-copy sets, and when the loops
\* of main are over the calls made are exactly the assignments consistent with
\* the evidence, each made once.
C2_EveryAssignmentExactlyOnce ==
    /\ calls # <<>> => LastCall.one_gene \cap LastCall.two_genes = {}
    /\ pc = "normalize" =>
          /\ Evaluated = AssignmentSpace
          /\ Cardinality(Evaluated) = Len(calls)

C2_Witness ==
    /\ pc = "normalize"
    /\ Len(rows) = 3
    /\ ObservedTrue # {}
    /\ Unobserved # {}
    /\ Len(calls) > 27

\* C3: no call is made with a trait subset that leaves out a person observed
\* with the trait or contains a person observed without it; a person with no
\* observation is, by the end of the loops, evaluated both with and without
\* the trait.
C3_EvidenceNeverContradicted ==
    /\ calls # <<>> => ConsistentWithEvidence(LastCall.have_trait)
    /\ pc = "normalize" =>
          \A person \in Unobserved :
              /\ \E q \in 1..Len(calls) : person \in calls[q].have_trait
              /\ \E q \in 1..Len(calls) : person \notin calls[q].have_trait

C3_Witness ==
    /\ pc = "normalize"
    /\ ObservedTrue # {}
    /\ ObservedFalse # {}
    /\ Unobserved # {}
    /\ calls # <<>>

\* C4: a person observed with the trait has a zero False bucket in every
\* accumulator state, and after normalization a True bucket of exactly 1.
C4_ObservedTraitIsCertain ==
    pc # "load" =>
        \A person \in ObservedTrue :
            /\ RIsZero(probabilities[person].trait[FALSE])
            /\ pc = "done" => REq(probabilities[person].trait[TRUE], One)

C4_Witness ==
    /\ pc = "done"
    /\ Len(rows) = 3
    /\ rows[3].mother # None
    /\ rows[3].trait = "1"
    /\ rows[1].trait = ""

\* what load_data's docstring demands of the file
Malformed ==
    \E q \in 1..Len(rows) :
        \/ (rows[q].mother = None) # (rows[q].father = None)
        \/ rows[q].mother \notin Everyone \cup {None}
        \/ rows[q].father \notin Everyone \cup {None}

\* C5: on a file with a parent reference to no row, or with only one of
\* mother/father given, the run fails with MalformedPedigreeError and no
\* assignment is ever evaluated.
C5_MalformedPedigreeRejected ==
    (Malformed /\ pc # "load") =>
        /\ err = "MalformedPedigreeError"
        /\ calls = <<>>
        /\ pc \notin {"normalize", "done"}


\* some person's three gene-count buckets, or two trait buckets, add up to zero
HasZeroTotal ==
    \E person \in DOMAIN probabilities :
        \/ RIsZero(RAdd(probabilities[person].gene[0],
                        RAdd(probabilities[person].gene[1],
                             probabilities[person].gene[2])))
        \/ RIsZero(RAdd(probabilities[person].trait[FALSE],
                        probabilities[person].trait[TRUE]))

\* every bucket is a number: no quotient by zero was stored
AllDefined ==
    \A person \in DOMAIN probabilities :
        /\ \A g \in 0..2 : probabilities[person].gene[g].d # <<>>
        /\ \A t \in BOOLEAN : probabilities[person].trait[t].d # <<>>

Founders == {q \in Everyone : rows[q].mother = None /\ rows[q].father = None}

\* C7: with no observed trait in the file, the normalized gene-count
\* distribution of every person without recorded parents is the
\* unconditional prior 0.96 / 0.03 / 0.01.
C7_FoundersKeepPrior ==
    (pc = "done" /\ Unobserved = Everyone) =>
        \A person \in Founders :
            /\ REq(probabilities[person].gene[0], Rat(96, 100))
            /\ REq(probabilities[person].gene[1], Rat(3, 100))
            /\ REq(probabilities[person].gene[2], Rat(1, 100))

C7_Witness ==
    /\ pc = "done"
    /\ Unobserved = Everyone
    /\ Len(rows) = 3
    /\ rows[3].mother = 1
    /\ rows[3].father = 2

\* C8: with mutation rate 0, calculate_child_gene_probability returns 1 for
\* count 0 and 0 for counts 1, 2 when both parents have no copy, and 1 for
\* count 2 and 0 for counts 0, 1 when both parents have two copies.
C8_MutationZeroBoundary ==
    (pc = "returned" /\ RIsZero(PROBS.mutation)
        /\ ret.mother_genes = ret.father_genes /\ ret.mother_genes \in {0, 2}) =>
            IF ret.child_number_of_genes = ret.mother_genes
            THEN REq(ret.gene_probability, One)
            ELSE RIsZero(ret.gene_probability)

C8_Witness ==
    /\ pc = "returned"
    /\ RIsZero(PROBS.mutation)
    /\ ret.mother_genes = 0
    /\ ret.father_genes = 0
    /\ ret.child_number_of_genes = 0


\* persons of the last call that are in neither one_gene nor two_genes
Unassigned == Everyone \ (LastCall.one_gene \cup LastCall.two_genes)

\* the value of the empty gene assignment with every person at zero copies:
\* 0.96 for a founder, 0.99 * 0.99 for a child of two zero-copy parents,
\* times 0.01 with the trait and 0.99 without
RECURSIVE ZeroCopyProduct(_, _)
ZeroCopyProduct(persons, have_trait) ==
    IF persons = {} THEN One
    ELSE LET person == CHOOSE x \in persons : TRUE
         IN  RMul(RMul(IF person \in Founders THEN Rat(96, 100) ELSE Rat(9801, 10000),
                       IF person \in have_trait THEN Rat(1, 100) ELSE Rat(99, 100)),
                  ZeroCopyProduct(persons \ {person}, have_trait))

AssignedCount(call, person) ==
    IF person \in call.two_genes THEN 2 ELSE IF person \in call.one_gene THEN 1 ELSE 0

\* probability that a parent with the given count does / does not transmit
TransmitP(count, transmits) ==
    LET yes == CASE count = 2 -> RSub(One, PROBS.mutation)
                 [] count = 1 -> Rat(1, 2)
                 [] count = 0 -> PROBS.mutation
    IN  IF transmits THEN yes ELSE RSub(One, yes)

RECURSIVE SumOutcomes(_, _, _)
SumOutcomes(outcomes, mg, fg) ==
    IF outcomes = {} THEN Zero
    ELSE LET o == CHOOSE x \in outcomes : TRUE
         IN  RAdd(RMul(TransmitP(mg, o[1]), TransmitP(fg, o[2])),
                  SumOutcomes(outcomes \ {o}, mg, fg))

\* count 2 = both transmit, count 1 = exactly one transmits, count 0 = neither
InheritP(count, mg, fg) ==
    SumOutcomes({o \in BOOLEAN \X BOOLEAN :
                    (IF o[1] THEN 1 ELSE 0) + (IF o[2] THEN 1 ELSE 0) = count}, mg, fg)

RECURSIVE ProductOverPersons(_, _)
ProductOverPersons(persons, call) ==
    IF persons = {} THEN One
    ELSE LET person == CHOOSE x \in persons : TRUE
             count == AssignedCount(call, person)
             geneP == IF person \in Founders
                      THEN PROBS.gene[count]
                      ELSE InheritP(count, AssignedCount(call, rows[person].mother),
                                           AssignedCount(call, rows[person].father))
             traitP == PROBS.trait[count][(person \in call.have_trait)]
         IN  RMul(RMul(geneP, traitP), ProductOverPersons(persons \ {person}, call))

\* C10: the value joint_probability returns is the product over all persons
\* of (probability of the assigned gene count) x (probability of the assigned
\* trait value given that count), the former being the prior for a person
\* without recorded parents and otherwise the probability that both / exactly
\* one / neither parent transmits, a parent transmitting with probability
\* 1 - m, 0.5 or m according to its two, one or zero copies.
C10_JointIsProduct ==
    calls # <<>> => REq(p, ProductOverPersons(Everyone, LastCall))

C10_Witness ==
    /\ calls # <<>>
    /\ Len(rows) = 3
    /\ rows[3].mother = 1
    /\ LastCall.one_gene = {1, 3}
    /\ LastCall.two_genes = {2}
    /\ LastCall.have_trait = {3}


\* C11: the accumulator starts with every bucket at 0, and each call of update
\* adds p to the gene bucket of the person's assigned count and to the trait
\* bucket of the person's assigned trait value, for every person, and leaves
\* every other bucket of every person as it was.
C11_UpdateAddsToOneBucketEach ==
    /\ [](pc = "trait_loop" /\ calls = <<>> =>
            \A person \in DOMAIN probabilities :
                /\ \A g \in 0..2 : RIsZero(probabilities[person].gene[g])
                /\ \A t \in BOOLEAN : RIsZero(probabilities[person].trait[t]))
    /\ [][calls' # calls =>
            /\ DOMAIN probabilities' = Everyone
            /\ \A person \in Everyone :
                  LET call == calls'[Len(calls')]
                      count == IF person \in call.two_genes THEN 2
                               ELSE IF person \in call.one_gene THEN 1 ELSE 0
                  IN  /\ \A g \in 0..2 :
                            IF g = count
                            THEN REq(probabilities'[person].gene[g],
                                     RAdd(probabilities[person].gene[g], p'))
                            ELSE probabilities'[person].gene[g] = probabilities[person].gene[g]
                      /\ \A t \in BOOLEAN :
                            IF t = (person \in call.have_trait)
                            THEN REq(probabilities'[person].trait[t],
                                     RAdd(probabilities[person].trait[t], p'))
                            ELSE probabilities'[person].trait[t] = probabilities[person].trait[t]
       ]_vars

\* an update has just credited a one-copy child with the trait and a two-copy
\* parent without it
C11_Witness ==
    /\ calls # <<>>
    /\ Len(rows) = 3
    /\ rows[3].mother = 1
    /\ LastCall.one_gene = {3}
    /\ LastCall.two_genes = {1}
    /\ LastCall.have_trait = {3}
    /\ ~ RIsZero(probabilities[3].gene[1])
    /\ ~ RIsZero(probabilities[1].gene[0])


C13_ProportionsPreserved ==
    [][(pc = "normalize" /\ pc' = "done") =>
          \A person \in DOMAIN probabilities :
              /\ \A g \in 0..2, h \in 0..2 :
                    REq(RMul(probabilities'[person].gene[g], probabilities[person].gene[h]),
                        RMul(probabilities'[person].gene[h], probabilities[person].gene[g]))
              /\ REq(RMul(probabilities'[person].trait[TRUE], probabilities[person].trait[FALSE]),
                     RMul(probabilities'[person].trait[FALSE], probabilities[person].trait[TRUE]))
              /\ \A g \in 0..2 : RLeq(probabilities'[person].gene[g], One)
              /\ \A t \in BOOLEAN : RLeq(probabilities'[person].trait[t], One)
       ]_vars

\* a normalized family in which the child is observed with the trait and a
\* parent is not observed: all of the parent's buckets are positive
C13_Witness ==
    /\ pc = "done"
    /\ Len(rows) = 3
    /\ rows[3].mother = 1
    /\ rows[3].trait = "1"
    /\ rows[1].trait = ""
    /\ \A g \in 0..2 : ~ RIsZero(probabilities[1].gene[g])
    /\ ~ RIsZero(probabilities[1].trait[TRUE])
    /\ ~ REq(probabilities[1].gene[1], Rat(3, 100))


\* C14: every run of main comes to the end of its loops, calls normalize and
\* finishes.
C14_Terminates ==
    /\ <>(pc = "normalize")
    /\ [](pc = "normalize" => <>(pc = "done"))

\* the longest run: three persons, nobody observed, all 8 * 27 assignments
C14_Witness ==
    /\ pc = "done"
    /\ Len(rows) = 3
    /\ Unobserved = Everyone
    /\ Len(calls) = 216

\* C15: while main accumulates (after any number of update calls, before
\* normalize), every person's three gene buckets and two trait buckets both
\* sum to the sum of the joint probabilities handed to update so far, so the
\* sum is the same for all persons.
C15_BucketSumsEqualMass ==
    pc \in {"trait_loop", "gene_loop", "normalize"} =>
        \A person \in DOMAIN probabilities :
            /\ REq(gene_total(probabilities[person]), mass)
            /\ REq(trait_total(probabilities[person]), mass)

\* in the middle of the loops of a three-person family, after some calls
C15_Witness ==
    /\ pc = "gene_loop"
    /\ Len(rows) = 3
    /\ rows[3].mother = 1
    /\ Len(calls) = 5
    /\ ~ RIsZero(mass)
    /\ ~ REq(mass, One)
    /\ REq(gene_total(probabilities[3]), trait_total(probabilities[1]))

\* C16: for a well-formed pedigree with no observed evidence the joint
\* probabilities of all enumerated assignments sum to 1, every person's gene
\* total and trait total are 1 before normalize runs, and normalize leaves
\* every bucket as it was.
C16_NoEvidenceSumsToOne ==
    /\ [](pc = "normalize" /\ Unobserved = Everyone =>
            /\ REq(mass, One)
            /\ \A person \in DOMAIN probabilities :
                  /\ REq(gene_total(probabilities[person]), One)
                  /\ REq(trait_total(probabilities[person]), One))
    /\ [][pc = "normalize" /\ Unobserved = Everyone =>
            /\ pc' = "done"
            /\ \A person \in DOMAIN probabilities :
                  /\ \A g \in 0..2 :
                        REq(probabilities'[person].gene[g], probabilities[person].gene[g])
                  /\ \A t \in BOOLEAN :
                        REq(probabilities'[person].trait[t], probabilities[person].trait[t])
       ]_vars

\* a finished run over two founders and their child, nobody observed
C16_Witness ==
    /\ pc = "done"
    /\ Len(rows) = 3
    /\ rows[3].mother = 1
    /\ rows[3].father = 2
    /\ Unobserved = Everyone
    /\ REq(mass, One)
    /\ REq(gene_total(probabilities[3]), One)
    /\ ~ RIsZero(probabilities[3].gene[2])

====
